---- MODULE Spec2Model ----
(***************************************************************************)
(* Intrusive doubly-linked list (A-Ih/intrusive-list).                     *)
(*                                                                         *)
(* The model follows the revision whose code is complete in the sources:  *)
(* the node primitive of intrusive_list.cpp and the list template of      *)
(* intrusive_list.h, lines 322-567.  A node is an address; its two link   *)
(* fields are the functions prev and next.  The marker of a node that is  *)
(* not connected is prev == next == nullptr (intrusive_list.h:333).       *)
(***************************************************************************)
EXTENDS Integers, Sequences, FiniteSets

\* Number of payload objects (addresses 1..MaxNodes).
MaxNodes == 4

\* nullptr
NULL == 0

\* The two list objects of the model.
Lists == {1, 2}

\* Addresses of payload nodes.
Payload == 1..MaxNodes

\* Address of the sentinel member of list l (intrusive_list.h:564).
sentinel(l) == MaxNodes + l

Sentinels == {sentinel(l) : l \in Lists}

Nodes == Payload \cup Sentinels

VARIABLES
  prev,    \* list_base::prev of every address
  next,    \* list_base::next of every address
  alive,   \* payload objects whose lifetime has begun and not ended
  live,    \* list objects whose lifetime has begun and not ended
  status,  \* "ok"; "ub" once an operation dereferenced nullptr or a dead
           \* object; "loop" once an operation entered a loop it never leaves;
           \* "assert" once an assertion failed and ended the program
  call,    \* the operation that has just returned, with its arguments and
           \* its result; op = "none" between two operations
  before,  \* the links and live objects at the entry of that operation
  dq       \* reference double-ended queue (used by SpecDeque only)

vars == <<prev, next, alive, live, status, call, before, dq>>

\* The link fields of all nodes and the sets of live objects as one value, with
\* the outcome so far of the operation that is running on them.
Heap == [prev |-> prev, next |-> next, alive |-> alive, live |-> live, st |-> status]

\* A pointer the code may dereference.
Ok(h, p) == p \in h.alive \/ \E l \in h.live : p = sentinel(l)

\* Outcome of dereferencing a bad pointer.
Undefined(h) == [h EXCEPT !.st = "ub"]

\* p->prev = v and p->next = v
SetPrev(h, p, v) == IF h.st # "ok" \/ ~Ok(h, p) THEN Undefined(h) ELSE [h EXCEPT !.prev[p] = v]
SetNext(h, p, v) == IF h.st # "ok" \/ ~Ok(h, p) THEN Undefined(h) ELSE [h EXCEPT !.next[p] = v]

\* p->prev and p->next as rvalues (p must be dereferenceable: see Deref)
GetPrev(h, p) == IF p \in Nodes THEN h.prev[p] ELSE NULL
GetNext(h, p) == IF p \in Nodes THEN h.next[p] ELSE NULL

\* The check that goes with a read through p.
Deref(h, p) == IF h.st # "ok" \/ ~Ok(h, p) THEN Undefined(h) ELSE h

----------------------------------------------------------------------------
(* Node primitive: intrusive_list.cpp *)

\* A mutation of unlink: the successor is not re-pointed at the predecessor.
unlink_keeps_back_ref(h, x) ==
  IF GetPrev(h, x) = NULL /\ GetNext(h, x) = NULL THEN h
  ELSE LET h1 == SetNext(h, GetPrev(h, x), GetNext(h, x))
           h2 == SetPrev(SetNext(h1, x, NULL), x, NULL)
       IN  h2

\* A mutation of unlink: the node keeps its own two links.
unlink_keeps_own_links(h, x) ==
  IF GetPrev(h, x) = NULL /\ GetNext(h, x) = NULL THEN h
  ELSE LET h1 == SetNext(h, GetPrev(h, x), GetNext(h, x))
           h2 == SetPrev(h1, GetNext(h1, x), GetPrev(h1, x))
       IN  h2

\* void list_base::unlink()
unlink(h, x) ==
  IF GetPrev(h, x) = NULL /\ GetNext(h, x) = NULL THEN h
  ELSE LET h1 == SetNext(h, GetPrev(h, x), GetNext(h, x))      \* prev->next = next
           h2 == SetPrev(h1, GetNext(h1, x), GetPrev(h1, x))   \* next->prev = prev
           h3 == SetPrev(SetNext(h2, x, NULL), x, NULL)        \* prev = next = nullptr
       IN  h3

\* A mutation of insert: the node is linked without being unlinked first.
insert_without_unlink(h, this, other) ==
  IF this = other THEN h
  ELSE LET h2 == SetNext(h, GetPrev(h, this), other)
           h3 == SetPrev(h2, other, GetPrev(h2, this))
           h4 == SetNext(h3, other, this)
           h5 == SetPrev(h4, this, other)
       IN  h5

\* A mutation of insert: no test for this == &other.
insert_without_self_test(h, this, other) ==
  LET h1 == unlink(h, other)
      h2 == SetNext(h1, GetPrev(h1, this), other)
      h3 == SetPrev(h2, other, GetPrev(h2, this))
      h4 == SetNext(h3, other, this)
      h5 == SetPrev(h4, this, other)
  IN  h5

\* A mutation of insert: this->prev is not set to &other.
insert_keeps_prev(h, this, other) ==
  IF this = other THEN h
  ELSE LET h1 == unlink(h, other)
           h2 == SetNext(h1, GetPrev(h1, this), other)
           h3 == SetPrev(h2, other, GetPrev(h2, this))
           h4 == SetNext(h3, other, this)
       IN  h4

\* void list_base::insert(list_base& other): insert other before this.
\* The assertion of line 46 is the guard of the actions that call it.
insert(h, this, other) ==
  IF this = other THEN h
  ELSE LET h1 == unlink(h, other)                       \* other.unlink()
           h2 == SetNext(h1, GetPrev(h1, this), other)  \* prev->next = &other
           h3 == SetPrev(h2, other, GetPrev(h2, this))  \* other.prev = this->prev
           h4 == SetNext(h3, other, this)               \* other.next = this
           h5 == SetPrev(h4, this, other)               \* this->prev = &other
       IN  h5

\* assert(prev != nullptr && next != nullptr) of list_base::insert
insert_assert(h, this) == GetPrev(h, this) # NULL /\ GetNext(h, this) # NULL

----------------------------------------------------------------------------
(* List observers: intrusive_list.h *)

\* bool list::empty()
empty(h, l) == h.prev[sentinel(l)] = sentinel(l) /\ h.next[sentinel(l)] = sentinel(l)

\* T& list::front(), T& list::back()  (the address of the returned object)
front(h, l) == h.next[sentinel(l)]
back(h, l) == h.prev[sentinel(l)]

\* iterator list::begin(), list::end()  (the iterator's data pointer)
begin(h, l) == h.next[sentinel(l)]
end(h, l) == sentinel(l)

\* generic_iterator::operator++ applied to the iterator cur until it equals
\* end(): the elements visited, with NULL in the place where the iteration
\* leaves the live payload nodes or does not come back within MaxNodes steps.
RECURSIVE Walk(_, _, _, _)
Walk(h, s, cur, fuel) ==
  IF cur = s THEN <<>>
  ELSE IF fuel = 0 \/ cur \notin h.alive THEN <<NULL>>
  ELSE <<cur>> \o Walk(h, s, h.next[cur], fuel - 1)

\* The elements of list l from begin() to end().
Order(h, l) == Walk(h, sentinel(l), begin(h, l), MaxNodes)

Range(seq) == {seq[i] : i \in DOMAIN seq}

\* The positions an iterator of list l can have: its elements, then end().
Positions(h, l) == Order(h, l) \o <<end(h, l)>>

\* Index of position p in list l.
IndexOf(h, l, p) == CHOOSE i \in DOMAIN Positions(h, l) : Positions(h, l)[i] = p

\* n.next.prev == n and n.prev.next == n
Consistent(h, n) ==
  /\ h.next[n] \in Nodes /\ h.prev[n] \in Nodes
  /\ h.prev[h.next[n]] = n /\ h.next[h.prev[n]] = n

\* List l is a circular chain through its sentinel and live payload nodes.
ChainOk(h, l) ==
  /\ NULL \notin Range(Order(h, l))
  /\ \A n \in Range(Positions(h, l)) : Consistent(h, n)

\* Node state "not connected": prev == next == nullptr.
Detached(h, n) == h.prev[n] = NULL /\ h.next[n] = NULL

\* Node state "linked": on the chain of exactly one well-formed list.
Linked(h, n) ==
  /\ \E l \in h.live : ChainOk(h, l) /\ n \in Range(Order(h, l))
  /\ \A l, m \in Lists :
        (n \in Range(Order(h, l)) /\ n \in Range(Order(h, m))) => l = m

\* Every live list is a well-formed chain and every live payload node is
\* either Detached or Linked.
WellFormed(h) ==
  /\ \A l \in h.live : ChainOk(h, l)
  /\ \A n \in h.alive : Detached(h, n) \/ Linked(h, n)

----------------------------------------------------------------------------
(* Construction, copy, move and destruction of payload nodes *)

\* No pointer refers to address n (the storage of a new object).
Fresh(h, n) == \A m \in Nodes : h.prev[m] # n /\ h.next[m] # n

\* A mutation of the default constructor: the node is linked to itself.
default_ctor_self_linked(h, this) ==
  [h EXCEPT !.alive = @ \cup {this}, !.prev[this] = this, !.next[this] = this]

\* list_base::list_base(): prev{nullptr}, next{nullptr}
default_ctor(h, this) ==
  [h EXCEPT !.alive = @ \cup {this}, !.prev[this] = NULL, !.next[this] = NULL]

\* A mutation of the copy constructor: the defaulted, member-wise copy.
copy_ctor_memberwise(h, this, other) ==
  [h EXCEPT !.alive = @ \cup {this},
            !.prev[this] = h.prev[other], !.next[this] = h.next[other]]

\* list_base::list_base(const list_base&) {}
copy_ctor(h, this, other) ==
  [h EXCEPT !.alive = @ \cup {this}, !.prev[this] = NULL, !.next[this] = NULL]

\* A mutation of the move constructor: the source keeps its links.
move_ctor_keeps_source(h, this, other) ==
  LET h1 == [h EXCEPT !.alive = @ \cup {this},
                      !.prev[this] = h.prev[other], !.next[this] = h.next[other]]
  IN  IF h.prev[other] # NULL /\ h.next[other] # NULL
      THEN SetPrev(SetNext(h1, h1.prev[this], this), h1.next[this], this)
      ELSE h1

\* list_base::list_base(list_base&& other)
move_ctor(h, this, other) ==
  LET h1 == [h EXCEPT !.alive = @ \cup {this},
                      !.prev[this] = h.prev[other], !.next[this] = h.next[other]]
  IN  IF h.prev[other] # NULL /\ h.next[other] # NULL
      THEN LET h2 == SetNext(h1, h1.prev[this], this)          \* prev->next = this
               h3 == SetPrev(h2, GetNext(h2, this), this)      \* next->prev = this
               h4 == SetNext(SetPrev(h3, other, NULL), other, NULL)
           IN  h4
      ELSE h1

\* list_base& list_base::operator=(list_base&& other)
move_assign(h, this, other) ==
  IF this = other THEN h
  ELSE LET h1 == SetPrev(h, this, h.prev[other])               \* prev = other.prev
           h2 == SetNext(h1, this, h1.next[other])             \* next = other.next
           h3 == SetNext(SetPrev(h2, other, NULL), other, NULL)
       IN  IF GetPrev(h3, other) # NULL /\ GetNext(h3, other) # NULL
           THEN SetPrev(SetNext(h3, GetPrev(h3, this), this), GetNext(h3, this), this)
           ELSE h3

\* A mutation of the copy assignment: the defaulted, member-wise assignment.
copy_assign_memberwise(h, this, other) ==
  SetNext(SetPrev(h, this, h.prev[other]), this, h.next[other])

\* list_base& list_base::operator=(const list_base& other) { return *this; }
copy_assign(h, this, other) == h

\* A mutation of the destructor: the object dies without unlink().
dtor_without_unlink(h, this) ==
  [h EXCEPT !.alive = @ \ {this}, !.prev[this] = NULL, !.next[this] = NULL]

\* list_base::~list_base(): unlink(), then the object's lifetime ends.
dtor(h, this) ==
  LET h1 == unlink(h, this)
  IN  IF h1.st # "ok" THEN h1
      ELSE [h1 EXCEPT !.alive = @ \ {this}, !.prev[this] = NULL, !.next[this] = NULL]

----------------------------------------------------------------------------
(* List operations: intrusive_list.h, struct list *)

\* void list::push_back(T& val): sentinel.insert(val)
push_back(h, l, val) == insert(h, sentinel(l), val)

\* void list::push_front(T& val): sentinel.next->insert(val)
push_front(h, l, val) ==
  insert(Deref(h, h.next[sentinel(l)]), h.next[sentinel(l)], val)

\* void list::pop_back(): sentinel.prev->unlink()
pop_back(h, l) == unlink(Deref(h, h.prev[sentinel(l)]), h.prev[sentinel(l)])

\* void list::pop_front(): sentinel.next->unlink()
pop_front(h, l) == unlink(Deref(h, h.next[sentinel(l)]), h.next[sentinel(l)])

\* Iterations of while (!empty()) pop_back() that this model follows before
\* it reports that the loop does not end.
MaxLoop == 6

\* void list::clear(): while (!empty()) pop_back().  An iteration that
\* changes nothing is repeated for ever.
RECURSIVE clear_loop(_, _, _)
clear_loop(h, l, fuel) ==
  IF h.st # "ok" \/ empty(h, l) THEN h
  ELSE IF fuel = 0 \/ pop_back(h, l) = h THEN [h EXCEPT !.st = "loop"]
  ELSE clear_loop(pop_back(h, l), l, fuel - 1)

clear(h, l) == clear_loop(h, l, MaxLoop)

\* A mutation of the move assignment of a list: no clear() of the target.
list_move_assign_without_clear(h, l, other) ==
  IF l = other THEN h
  ELSE LET s  == sentinel(l)
           o  == sentinel(other)
       IN  IF empty(h, other) THEN h
           ELSE LET h1 == SetPrev(h, s, h.prev[o])
                    h2 == SetNext(h1, s, h1.next[o])
                    h3 == SetNext(SetPrev(h2, o, o), o, o)
                    h4 == SetPrev(h3, h3.next[s], s)
                    h5 == SetNext(h4, GetPrev(h4, s), s)
                IN  h5

\* list& list::operator=(list&& other)
list_move_assign(h, l, other) ==
  IF l = other THEN h
  ELSE LET s  == sentinel(l)
           o  == sentinel(other)
           h0 == clear(h, l)
       IN  IF h0.st # "ok" \/ empty(h0, other) THEN h0
           ELSE LET h1 == SetPrev(h0, s, h0.prev[o])     \* sentinel.prev = other.sentinel.prev
                    h2 == SetNext(h1, s, h1.next[o])     \* sentinel.next = other.sentinel.next
                    h3 == SetNext(SetPrev(h2, o, o), o, o)
                    h4 == SetPrev(h3, h3.next[s], s)     \* sentinel.next->prev = &sentinel
                    h5 == SetNext(h4, GetPrev(h4, s), s) \* sentinel.prev->next = &sentinel
                IN  h5

\* list::list(): the sentinel is default-constructed, then linked to itself.
list_ctor(h, l) ==
  [h EXCEPT !.live = @ \cup {l},
            !.prev[sentinel(l)] = sentinel(l), !.next[sentinel(l)] = sentinel(l)]

\* A mutation of the move constructor of a list: the member-wise move, in
\* which the new sentinel takes the place of the sentinel of other.
list_move_ctor_memberwise(h, l, other) ==
  [move_ctor(h, sentinel(l), sentinel(other))
     EXCEPT !.alive = h.alive, !.live = @ \cup {l}]

\* list::list(list&& other) : list{} { *this = std::move(other); }
list_move_ctor(h, l, other) == list_move_assign(list_ctor(h, l), l, other)

\* A mutation of the destructor of a list: no clear().
list_dtor_without_clear(h, l) ==
  LET h1 == dtor(h, sentinel(l))
  IN  IF h1.st # "ok" THEN h1 ELSE [h1 EXCEPT !.live = @ \ {l}]

\* list::~list(): clear(), then the destructor of the member sentinel.
list_dtor(h, l) ==
  LET h1 == dtor(clear(h, l), sentinel(l))
  IN  IF h1.st # "ok" THEN h1 ELSE [h1 EXCEPT !.live = @ \ {l}]

\* generic_iterator::operator++ and operator--: the new data pointer
iter_inc(h, it) == GetNext(h, it)
iter_dec(h, it) == GetPrev(h, it)

\* iterator list::insert(const_iterator it, T& val): the links and the
\* data pointer of the returned iterator
list_insert(h, it, val) == insert(Deref(h, it), it, val)
list_insert_ret(h, it, val) == val

\* A mutation of erase: the iterator returned is the erased position.
erase_ret_stale(h, it) == it

\* A mutation of erase: the iterator is advanced before it is saved, and the
\* successor is unlinked.
erase_unlinks_successor(h, it) == unlink(Deref(h, GetNext(h, it)), GetNext(h, it))

\* iterator list::erase(iterator it): the links and the data pointer of the
\* returned iterator (it++ is evaluated before the unlink)
erase(h, it) == unlink(Deref(h, it), it)
erase_ret(h, it) == GetNext(h, it)

\* A mutation of splice: the range moved is [first, last], without --last.
splice_closed_range(h, pos, first, last) ==
  IF first = last THEN h
  ELSE LET h1 == SetNext(h, GetPrev(h, first), GetNext(h, last))
           h2 == SetPrev(h1, GetNext(h1, last), GetPrev(h1, first))
           h3 == SetPrev(h2, first, GetPrev(h2, pos))
           h4 == SetNext(h3, GetPrev(h3, pos), first)
           h5 == SetNext(h4, last, pos)
           h6 == SetPrev(h5, pos, last)
       IN  h6

\* A mutation of splice: no test for first == last (the statements are those
\* of splice).
splice_without_empty_test(h, pos, first, last) ==
  LET lst == GetPrev(h, last)
      h0 == Deref(Deref(Deref(Deref(h, last), lst), first), pos)
      h1 == SetNext(h0, GetPrev(h0, first), GetNext(h0, lst))
      h2 == SetPrev(h1, GetNext(h1, lst), GetPrev(h1, first))
      h3 == SetPrev(h2, first, GetPrev(h2, pos))
      h4 == SetNext(h3, GetPrev(h3, pos), first)
      h5 == SetNext(h4, lst, pos)
      h6 == SetPrev(h5, pos, lst)
  IN  h6

\* A mutation of splice: pos->prev is read once, before the range is taken
\* out of its chain.
splice_caches_pos_prev(h, pos, first, last) ==
  IF first = last THEN h
  ELSE LET lst == GetPrev(h, last)
           pp == GetPrev(h, pos)
           h0 == Deref(Deref(Deref(Deref(h, last), lst), first), pos)
           h1 == SetNext(h0, GetPrev(h0, first), GetNext(h0, lst))
           h2 == SetPrev(h1, GetNext(h1, lst), GetPrev(h1, first))
           h3 == SetPrev(h2, first, pp)
           h4 == SetNext(h3, pp, first)
           h5 == SetNext(h4, lst, pos)
           h6 == SetPrev(h5, pos, lst)
       IN  h6

\* A mutation of splice: the first element of the range, not the last, is
\* linked to pos.
splice_links_first_to_pos(h, pos, first, last) ==
  IF first = last THEN h
  ELSE LET lst == GetPrev(h, last)
           h0 == Deref(Deref(Deref(Deref(h, last), lst), first), pos)
           h1 == SetNext(h0, GetPrev(h0, first), GetNext(h0, lst))
           h2 == SetPrev(h1, GetNext(h1, lst), GetPrev(h1, first))
           h3 == SetPrev(h2, first, GetPrev(h2, pos))
           h4 == SetNext(h3, GetPrev(h3, pos), first)
           h5 == SetNext(h4, first, pos)
           h6 == SetPrev(h5, pos, lst)
       IN  h6

\* void list::splice(const_iterator pos, list& other, const_iterator first,
\*                   const_iterator last); `other` is not used by the body.
splice(h, pos, first, last) ==
  IF first = last THEN h
  ELSE LET lst == GetPrev(h, last)                                 \* --last
           h0 == Deref(Deref(Deref(Deref(h, last), lst), first), pos)
           h1 == SetNext(h0, GetPrev(h0, first), GetNext(h0, lst))  \* first->prev->next = last->next
           h2 == SetPrev(h1, GetNext(h1, lst), GetPrev(h1, first))  \* last->next->prev = first->prev
           h3 == SetPrev(h2, first, GetPrev(h2, pos))               \* first->prev = pos->prev
           h4 == SetNext(h3, GetPrev(h3, pos), first)               \* pos->prev->next = first
           h5 == SetNext(h4, lst, pos)                              \* last->next = pos
           h6 == SetPrev(h5, pos, lst)                              \* pos->prev = last
       IN  h6

----------------------------------------------------------------------------
(* The state machine *)

\* Record of an operation: its name, up to four arguments, its result.
Rec(op, a, b, c, d, ret) == [op |-> op, a |-> a, b |-> b, c |-> c, d |-> d, ret |-> ret]

NoCall == Rec("none", 0, 0, 0, 0, 0)

\* The program is between two operations, and the chains are intact: the
\* exploration ends where an operation has broken a chain or has run into
\* undefined behaviour.
Ready == call = NoCall /\ status = "ok" /\ WellFormed(Heap)

\* An operation took the program from the current heap to h2.
Effect(h2, rec) ==
  /\ prev' = h2.prev
  /\ next' = h2.next
  /\ alive' = h2.alive
  /\ live' = h2.live
  /\ status' = h2.st
  /\ call' = rec
  /\ before' = Heap

Apply(h2, rec) == Effect(h2, rec) /\ UNCHANGED dq

\* Two lists constructed by list::list() and MaxNodes default-constructed
\* payload objects.
Init ==
  /\ prev = [n \in Nodes |-> IF n \in Sentinels THEN n ELSE NULL]
  /\ next = [n \in Nodes |-> IF n \in Sentinels THEN n ELSE NULL]
  /\ alive = Payload
  /\ live = Lists
  /\ status = "ok"
  /\ call = NoCall
  /\ before = Heap
  /\ dq = <<>>

\* The caller has taken the result of the operation and goes on.
Return ==
  /\ call # NoCall
  /\ call' = NoCall
  /\ before' = Heap
  /\ UNCHANGED <<prev, next, alive, live, status, dq>>

Construct(n) ==
  /\ Ready /\ n \in Payload \ alive /\ Fresh(Heap, n)
  /\ Apply(default_ctor(Heap, n), Rec("construct", n, 0, 0, 0, 0))

CopyConstruct(n, other) ==
  /\ Ready /\ n \in Payload \ alive /\ Fresh(Heap, n) /\ other \in alive
  /\ Apply(copy_ctor(Heap, n, other), Rec("copy_ctor", n, other, 0, 0, 0))

MoveConstruct(n, other) ==
  /\ Ready /\ n \in Payload \ alive /\ Fresh(Heap, n) /\ other \in alive
  /\ Apply(move_ctor(Heap, n, other), Rec("move_ctor", n, other, 0, 0, 0))

MoveAssign(n, other) ==
  /\ Ready /\ n \in alive /\ other \in alive
  /\ Apply(move_assign(Heap, n, other), Rec("move_assign", n, other, 0, 0, 0))

CopyAssign(n, other) ==
  /\ Ready /\ n \in alive /\ other \in alive
  /\ Apply(copy_assign(Heap, n, other), Rec("copy_assign", n, other, 0, 0, 0))

Destroy(n) ==
  /\ Ready /\ n \in alive
  /\ Apply(dtor(Heap, n), Rec("destroy", n, 0, 0, 0, 0))

\* val.unlink() called by the owner of a payload object
Unlink(n) ==
  /\ Ready /\ n \in alive
  /\ Apply(unlink(Heap, n), Rec("unlink", n, 0, 0, 0, 0))

\* The storage of list l is unused and no pointer refers to it.
ListConstruct(l) ==
  /\ Ready /\ l \in Lists \ live /\ Fresh(Heap, sentinel(l))
  /\ Apply(list_ctor(Heap, l), Rec("list_ctor", l, 0, 0, 0, 0))

ListMoveConstruct(l, other) ==
  /\ Ready /\ l \in Lists \ live /\ Fresh(Heap, sentinel(l)) /\ other \in live
  /\ Apply(list_move_ctor(Heap, l, other), Rec("list_move_ctor", l, other, 0, 0, 0))

ListDestroy(l) ==
  /\ Ready /\ l \in live
  /\ Apply(list_dtor(Heap, l), Rec("list_dtor", l, 0, 0, 0, 0))

PushBack(l, val) ==
  /\ Ready /\ l \in live /\ val \in alive
  /\ insert_assert(Heap, sentinel(l))
  /\ Apply(push_back(Heap, l, val), Rec("push_back", l, val, 0, 0, 0))

PushFront(l, val) ==
  /\ Ready /\ l \in live /\ val \in alive
  /\ insert_assert(Heap, next[sentinel(l)])
  /\ Apply(push_front(Heap, l, val), Rec("push_front", l, val, 0, 0, 0))

\* assert(!empty())
PopBack(l) ==
  /\ Ready /\ l \in live /\ ~empty(Heap, l)
  /\ Apply(pop_back(Heap, l), Rec("pop_back", l, 0, 0, 0, 0))

\* assert(!empty())
PopFront(l) ==
  /\ Ready /\ l \in live /\ ~empty(Heap, l)
  /\ Apply(pop_front(Heap, l), Rec("pop_front", l, 0, 0, 0, 0))

Clear(l) ==
  /\ Ready /\ l \in live
  /\ Apply(clear(Heap, l), Rec("clear", l, 0, 0, 0, 0))

ListMoveAssign(l, other) ==
  /\ Ready /\ l \in live /\ other \in live
  /\ Apply(list_move_assign(Heap, l, other), Rec("list_move_assign", l, other, 0, 0, 0))

\* it is a position of list l: one of its elements or end().
Insert(l, it, val) ==
  /\ Ready /\ l \in live /\ val \in alive
  /\ it \in Range(Positions(Heap, l))
  /\ insert_assert(Heap, it)
  /\ Apply(list_insert(Heap, it, val),
           Rec("insert", l, it, val, 0, list_insert_ret(Heap, it, val)))

\* it refers to an element of list l.
Erase(l, it) ==
  /\ Ready /\ l \in live /\ it \in Range(Order(Heap, l))
  /\ Apply(erase(Heap, it), Rec("erase", l, it, 0, 0, erase_ret(Heap, it)))

\* [first, lst) is a range of list other, pos a position of list l that is
\* not inside the range.
Splice(l, other) ==
  /\ Ready /\ l \in live /\ other \in live
  /\ LET P == Positions(Heap, l)
         Q == Positions(Heap, other)
     IN  \E k \in DOMAIN P, i \in DOMAIN Q :
           \E j \in i..Len(Q) :
             /\ l = other => ~(i <= k /\ k < j)
             /\ Apply(splice(Heap, P[k], Q[i], Q[j]),
                      Rec("splice", l, P[k], Q[i], Q[j], other))

Next ==
  \/ \E n \in Payload : Construct(n)
  \/ \E n, m \in Payload : CopyConstruct(n, m)
  \/ \E n, m \in Payload : MoveConstruct(n, m)
  \/ \E n, m \in Payload : MoveAssign(n, m)
  \/ \E n, m \in Payload : CopyAssign(n, m)
  \/ \E n \in Payload : Destroy(n)
  \/ \E n \in Payload : Unlink(n)
  \/ \E l \in Lists : ListConstruct(l)
  \/ \E l, m \in Lists : ListMoveConstruct(l, m)
  \/ \E l \in Lists : ListDestroy(l)
  \/ \E l \in Lists, v \in Payload : PushBack(l, v)
  \/ \E l \in Lists, v \in Payload : PushFront(l, v)
  \/ \E l \in Lists : PopBack(l)
  \/ \E l \in Lists : PopFront(l)
  \/ \E l \in Lists : Clear(l)
  \/ \E l, m \in Lists : ListMoveAssign(l, m)
  \/ \E l \in Lists, it \in Nodes, v \in Payload : Insert(l, it, v)
  \/ \E l \in Lists, it \in Payload : Erase(l, it)
  \/ \E l, m \in Lists : Splice(l, m)
  \/ Return

\* Every operation of the model.
Spec == Init /\ [][Next]_vars

\* The operations of struct list on payload objects that stay alive.
NextList ==
  \/ \E l \in Lists, v \in Payload : PushBack(l, v)
  \/ \E l \in Lists, v \in Payload : PushFront(l, v)
  \/ \E l \in Lists : PopBack(l)
  \/ \E l \in Lists : PopFront(l)
  \/ \E l \in Lists : Clear(l)
  \/ \E l, m \in Lists : ListMoveAssign(l, m)
  \/ \E l \in Lists, it \in Nodes, v \in Payload : Insert(l, it, v)
  \/ \E l \in Lists, it \in Payload : Erase(l, it)
  \/ \E l, m \in Lists : Splice(l, m)
  \/ Return

SpecList == Init /\ [][NextList]_vars

\* Construction, copy, move construction, unlink and destruction of payload
\* objects that the pushes link into the lists.
NextNode ==
  \/ \E n \in Payload : Construct(n)
  \/ \E n, m \in Payload : CopyConstruct(n, m)
  \/ \E n, m \in Payload : MoveConstruct(n, m)
  \/ \E n, m \in Payload : CopyAssign(n, m)
  \/ \E n \in Payload : Destroy(n)
  \/ \E n \in Payload : Unlink(n)
  \/ \E l \in Lists, v \in Payload : PushBack(l, v)
  \/ \E l \in Lists, v \in Payload : PushFront(l, v)
  \/ Return

SpecNode == Init /\ [][NextNode]_vars

\* Construction, move and destruction of the lists, with the operations that
\* fill and empty them.
NextLife ==
  \/ \E l \in Lists : ListConstruct(l)
  \/ \E l, m \in Lists : ListMoveConstruct(l, m)
  \/ \E l \in Lists : ListDestroy(l)
  \/ \E l \in Lists, v \in Payload : PushBack(l, v)
  \/ \E l \in Lists, v \in Payload : PushFront(l, v)
  \/ \E l \in Lists : Clear(l)
  \/ \E l, m \in Lists : ListMoveAssign(l, m)
  \/ Return

SpecLife == Init /\ [][NextLife]_vars

\* The operations that remove a node from its place or give it a new one,
\* with the construction of payload objects.
NextIter ==
  \/ \E n \in Payload : Construct(n)
  \/ \E n \in Payload : Destroy(n)
  \/ \E l \in Lists, v \in Payload : PushBack(l, v)
  \/ \E l \in Lists, v \in Payload : PushFront(l, v)
  \/ \E l \in Lists : PopBack(l)
  \/ \E l \in Lists : PopFront(l)
  \/ \E l \in Lists, it \in Nodes, v \in Payload : Insert(l, it, v)
  \/ \E l \in Lists, it \in Payload : Erase(l, it)
  \/ Return

SpecIter == Init /\ [][NextIter]_vars

----------------------------------------------------------------------------
(* Payload objects with two nodes: struct T : list_element<Tag1>,
   list_element<Tag2>.  List l is a list<T, Tag l>. *)

\* The payload objects with two nodes.
Objs == 1..(MaxNodes \div 2)

\* A mutation of the cast: the address of the object, which is the address
\* of its first base, whatever the tag.
element_first_base(o, t) == 2 * (o - 1) + 1

\* static_cast<list_element<Tag>&>(val): the address of the node of tag t
\* inside object o.
element(o, t) == 2 * (o - 1) + t

\* push_back(T& val): sentinel.insert(static_cast<list_element<Tag>&>(val))
TagPushBack(l, o) ==
  /\ Ready /\ l \in live /\ element(o, l) \in alive
  /\ insert_assert(Heap, sentinel(l))
  /\ Apply(push_back(Heap, l, element(o, l)),
           Rec("push_back", l, element(o, l), 0, 0, 0))

\* push_front(T& val): insert(begin(), val), with the cast of insert
TagPushFront(l, o) ==
  /\ Ready /\ l \in live /\ element(o, l) \in alive
  /\ insert_assert(Heap, next[sentinel(l)])
  /\ Apply(push_front(Heap, l, element(o, l)),
           Rec("push_front", l, element(o, l), 0, 0, 0))

\* insert(const_iterator it, T& val):
\* it.data->insert(*static_cast<list_element<Tag>*>(&val))
TagInsert(l, it, o) ==
  /\ Ready /\ l \in live /\ element(o, l) \in alive
  /\ it \in Range(Positions(Heap, l))
  /\ insert_assert(Heap, it)
  /\ Apply(list_insert(Heap, it, element(o, l)),
           Rec("insert", l, it, element(o, l), 0,
               list_insert_ret(Heap, it, element(o, l))))

\* The operations of the two lists of different tags on the objects with two
\* nodes.  The iterators and ranges of a list refer to nodes of its own tag,
\* and splice and the list move take place within one tag.
NextTags ==
  \/ \E l \in Lists, o \in Objs : TagPushBack(l, o)
  \/ \E l \in Lists, o \in Objs : TagPushFront(l, o)
  \/ \E l \in Lists, it \in Nodes, o \in Objs : TagInsert(l, it, o)
  \/ \E l \in Lists : PopBack(l)
  \/ \E l \in Lists : PopFront(l)
  \/ \E l \in Lists, it \in Payload : Erase(l, it)
  \/ \E l \in Lists : Splice(l, l)
  \/ \E l \in Lists : Clear(l)
  \/ \E l \in Lists : ListMoveAssign(l, l)
  \/ \E l \in Lists : ListDestroy(l)
  \/ \E l \in Lists : ListConstruct(l)
  \/ Return

SpecTags == Init /\ [][NextTags]_vars

----------------------------------------------------------------------------
(* Calls that may break the precondition of the operation *)

\* Outcome of a failed assert(): the program ends and nothing is written.
AssertFail(h) == [h EXCEPT !.st = "assert"]

\* assert(!empty()) of pop_back, pop_front, back and front
\* (intrusive_list.h:482, 487, 497, 507)
nonempty_assert(h, l) == ~empty(h, l)

\* pop_back() and pop_front() with their assertion
list_pop_back(h, l) == IF nonempty_assert(h, l) THEN pop_back(h, l) ELSE AssertFail(h)
list_pop_front(h, l) == IF nonempty_assert(h, l) THEN pop_front(h, l) ELSE AssertFail(h)

\* back() and front() with their assertion: the outcome, and the address of
\* the object whose reference is returned (NULL: the call does not return)
list_back(h, l) ==
  IF nonempty_assert(h, l) THEN Deref(h, back(h, l)) ELSE AssertFail(h)
list_back_ret(h, l) == IF nonempty_assert(h, l) THEN back(h, l) ELSE NULL
list_front(h, l) ==
  IF nonempty_assert(h, l) THEN Deref(h, front(h, l)) ELSE AssertFail(h)
list_front_ret(h, l) == IF nonempty_assert(h, l) THEN front(h, l) ELSE NULL

\* back() and front() of the revision of intrusive_list.h:720-734:
\* return *std::prev(end()) and return *begin(), without an assertion
back_noexcept(h, l) == Deref(h, iter_dec(h, end(h, l)))
back_noexcept_ret(h, l) == iter_dec(h, end(h, l))
front_noexcept(h, l) == Deref(h, begin(h, l))
front_noexcept_ret(h, l) == begin(h, l)

\* The record field d is 1 for a call of the revision of lines 720-734.
CallPopBack(l) ==
  /\ Ready /\ l \in live
  /\ Apply(list_pop_back(Heap, l), Rec("pop_back", l, 0, 0, 0, 0))

CallPopFront(l) ==
  /\ Ready /\ l \in live
  /\ Apply(list_pop_front(Heap, l), Rec("pop_front", l, 0, 0, 0, 0))

CallBack(l) ==
  /\ Ready /\ l \in live
  /\ Apply(list_back(Heap, l), Rec("back", l, 0, 0, 0, list_back_ret(Heap, l)))

CallFront(l) ==
  /\ Ready /\ l \in live
  /\ Apply(list_front(Heap, l), Rec("front", l, 0, 0, 0, list_front_ret(Heap, l)))

BackNoexcept(l) ==
  /\ Ready /\ l \in live
  /\ Apply(back_noexcept(Heap, l), Rec("back", l, 0, 0, 1, back_noexcept_ret(Heap, l)))

FrontNoexcept(l) ==
  /\ Ready /\ l \in live
  /\ Apply(front_noexcept(Heap, l), Rec("front", l, 0, 0, 1, front_noexcept_ret(Heap, l)))

\* erase(it) with it any position of list l, end() included: the function
\* has no assertion.
CallErase(l, it) ==
  /\ Ready /\ l \in live /\ it \in Range(Positions(Heap, l))
  /\ Apply(erase(Heap, it), Rec("erase", l, it, 0, 0, erase_ret(Heap, it)))

NextContract ==
  \/ \E l \in Lists, v \in Payload : PushBack(l, v)
  \/ \E l \in Lists, v \in Payload : PushFront(l, v)
  \/ \E l \in Lists : CallPopBack(l)
  \/ \E l \in Lists : CallPopFront(l)
  \/ \E l \in Lists : CallBack(l)
  \/ \E l \in Lists : CallFront(l)
  \/ \E l \in Lists : BackNoexcept(l)
  \/ \E l \in Lists : FrontNoexcept(l)
  \/ \E l \in Lists, it \in Nodes : CallErase(l, it)
  \/ Return

SpecContract == Init /\ [][NextContract]_vars

\* The program is between two operations; an earlier operation may have
\* left a chain that is not intact.
Settled == call = NoCall /\ status = "ok"

\* clear() on a list, whatever the earlier operations have made of its chain.
ClearAnyChain(l) ==
  /\ Settled /\ l \in live
  /\ Apply(clear(Heap, l), Rec("clear", l, 0, 0, 0, 0))

\* The operations that make a node or leave a node unconnected.
NextDetach ==
  \/ \E n \in Payload : Construct(n)
  \/ \E n, m \in Payload : CopyConstruct(n, m)
  \/ \E n, m \in Payload : MoveConstruct(n, m)
  \/ \E n \in Payload : Destroy(n)
  \/ \E n \in Payload : Unlink(n)
  \/ \E l \in Lists, v \in Payload : PushBack(l, v)
  \/ \E l \in Lists, v \in Payload : PushFront(l, v)
  \/ \E l \in Lists : PopBack(l)
  \/ \E l \in Lists : PopFront(l)
  \/ \E l \in Lists, it \in Payload : Erase(l, it)
  \/ \E l \in Lists : Clear(l)
  \/ Return

SpecDetach == Init /\ [][NextDetach]_vars

\* Construction, copy, move and destruction of payload objects that are
\* pushed to the lists, and clear().
NextClear ==
  \/ \E n \in Payload : Construct(n)
  \/ \E n, m \in Payload : CopyConstruct(n, m)
  \/ \E n, m \in Payload : MoveConstruct(n, m)
  \/ \E n, m \in Payload : MoveAssign(n, m)
  \/ \E n, m \in Payload : CopyAssign(n, m)
  \/ \E n \in Payload : Destroy(n)
  \/ \E l \in Lists, v \in Payload : PushBack(l, v)
  \/ \E l \in Lists, v \in Payload : PushFront(l, v)
  \/ \E l \in Lists : ClearAnyChain(l)
  \/ Return

SpecClear == Init /\ [][NextClear]_vars

----------------------------------------------------------------------------
(* A reference double-ended queue beside list 1 *)

ref_push_back(d, v) == Append(d, v)
ref_push_front(d, v) == <<v>> \o d
ref_pop_back(d) == IF d = <<>> THEN d ELSE SubSeq(d, 1, Len(d) - 1)
ref_pop_front(d) == IF d = <<>> THEN d ELSE Tail(d)

DequePushBack(val) ==
  /\ Ready /\ val \in alive /\ Detached(Heap, val)
  /\ insert_assert(Heap, sentinel(1))
  /\ Effect(push_back(Heap, 1, val), Rec("push_back", 1, val, 0, 0, 0))
  /\ dq' = ref_push_back(dq, val)

DequePushFront(val) ==
  /\ Ready /\ val \in alive /\ Detached(Heap, val)
  /\ insert_assert(Heap, next[sentinel(1)])
  /\ Effect(push_front(Heap, 1, val), Rec("push_front", 1, val, 0, 0, 0))
  /\ dq' = ref_push_front(dq, val)

DequePopBack ==
  /\ Ready /\ ~empty(Heap, 1)
  /\ Effect(pop_back(Heap, 1), Rec("pop_back", 1, 0, 0, 0, 0))
  /\ dq' = ref_pop_back(dq)

DequePopFront ==
  /\ Ready /\ ~empty(Heap, 1)
  /\ Effect(pop_front(Heap, 1), Rec("pop_front", 1, 0, 0, 0, 0))
  /\ dq' = ref_pop_front(dq)

NextDeque ==
  \/ \E v \in Payload : DequePushBack(v)
  \/ \E v \in Payload : DequePushFront(v)
  \/ DequePopBack
  \/ DequePopFront
  \/ Return

SpecDeque == Init /\ [][NextDeque]_vars

----------------------------------------------------------------------------
(* Claims *)

\* seq without its i-th element; seq without the elements i..j-1.
RemoveAt(seq, i) == SubSeq(seq, 1, i - 1) \o SubSeq(seq, i + 1, Len(seq))
RemoveRange(seq, i, j) == SubSeq(seq, 1, i - 1) \o SubSeq(seq, j, Len(seq))

\* seq with the sequence ins put before its k-th element (k = Len + 1: at
\* the end).
InsertAt(seq, k, ins) == SubSeq(seq, 1, k - 1) \o ins \o SubSeq(seq, k, Len(seq))

\* seq without the element x; seq with b in the place of a.
Without(seq, x) == SelectSeq(seq, LAMBDA e : e # x)
Replace(seq, a, b) == [i \in DOMAIN seq |-> IF seq[i] = a THEN b ELSE seq[i]]

\* Index of position p in the positions seq \o <<s>>.
IndexIn(seq, s, p) == CHOOSE i \in 1..(Len(seq) + 1) : (seq \o <<s>>)[i] = p

\* The number of places at which n stands in the lists.
Places(h, n) ==
  Cardinality({<<l, i>> \in Lists \X (1..MaxNodes) :
                 i <= Len(Order(h, l)) /\ Order(h, l)[i] = n})

\* The links of node n are the same in g and h.
SameLinks(g, h, n) == g.prev[n] = h.prev[n] /\ g.next[n] = h.next[n]

\* Every operation but the move assignment of a node takes intact chains to
\* intact chains, without undefined behaviour.
ChainsKept ==
  (call.op # "move_assign" /\ WellFormed(before)) =>
    (status = "ok" /\ WellFormed(Heap))

\* C1: after any sequence of public operations every list is a circular
\* chain through exactly one sentinel with n.next.prev == n and
\* n.prev.next == n for each of its nodes, and every live payload node is
\* either Detached or Linked on one such chain; no node is half-linked and no
\* chain references a node that is not on it.  (Violated: see C9.)
C1_NodeStates == status = "ok" /\ WellFormed(Heap)

\* C2: after every sequence of push_front, push_back, pop_front and pop_back
\* on list 1 (pushes of Detached elements, pops of a non-empty list) the
\* front-to-back order of the list and the results of empty(), front() and
\* back() are those of the reference deque.
C2_Deque ==
  /\ status = "ok"
  /\ Order(Heap, 1) = dq
  /\ empty(Heap, 1) <=> dq = <<>>
  /\ dq # <<>> => front(Heap, 1) = Head(dq) /\ back(Heap, 1) = dq[Len(dq)]

\* C2 witness: a pop_front has just left three elements that were pushed at
\* both ends.
C2_Witness ==
  /\ call.op = "pop_front"
  /\ Len(dq) = 3
  /\ dq[1] > dq[2] /\ dq[2] < dq[3]

\* C3: erase(it) on an element of a list of N elements leaves the N-1 other
\* elements in their order on a well-formed chain, leaves the erased node
\* Detached, does not touch the other list, and returns an iterator to the
\* element that followed the erased one, end() if it was the last.
C3_Erase ==
  call.op = "erase" =>
    LET l  == call.a
        it == call.b
        O  == Order(before, l)
        i  == IndexOf(before, l, it)
    IN  /\ status = "ok"
        /\ Order(Heap, l) = RemoveAt(O, i)
        /\ Len(Order(Heap, l)) = Len(O) - 1
        /\ ChainOk(Heap, l)
        /\ Detached(Heap, it)
        /\ call.ret = (IF i = Len(O) THEN end(Heap, l) ELSE O[i + 1])
        /\ \A m \in Lists \ {l} : Order(Heap, m) = Order(before, m)

\* C3 witness: the middle element of a list of three has been erased.
C3_Witness ==
  /\ call.op = "erase"
  /\ Len(Order(before, call.a)) = 3
  /\ Order(before, call.a)[2] = call.b
  /\ Len(Order(Heap, call.a)) = 2

\* C4: splice(pos, other, first, last) with other a different list moves
\* exactly the elements of [first, last) to immediately before pos, in their
\* order; last is not moved; the remaining elements of both lists keep
\* their order, and both chains stay well-formed.
C4_Splice ==
  (call.op = "splice" /\ call.a # call.ret) =>
    LET l     == call.a
        other == call.ret
        P     == Order(before, l)
        Q     == Order(before, other)
        k     == IndexOf(before, l, call.b)
        i     == IndexOf(before, other, call.c)
        j     == IndexOf(before, other, call.d)
    IN  /\ status = "ok"
        /\ Order(Heap, other) = RemoveRange(Q, i, j)
        /\ Order(Heap, l) = InsertAt(P, k, SubSeq(Q, i, j - 1))
        /\ call.d \in Payload => call.d \in Range(Order(Heap, other))
        /\ ChainOk(Heap, l) /\ ChainOk(Heap, other)

\* C4 witness: from a list of three, the first two elements have been moved
\* before the only element of the other list; the third stayed.
C4_Witness ==
  /\ call.op = "splice" /\ call.a # call.ret
  /\ Len(Order(before, call.ret)) = 3
  /\ Order(before, call.ret)[1] = call.c
  /\ Order(before, call.ret)[3] = call.d
  /\ Order(before, call.a) = <<call.b>>
  /\ Len(Order(Heap, call.a)) = 3
  /\ Order(Heap, call.ret) = <<call.d>>

\* The list, the position and the value of the insertion that has returned:
\* push_back inserts before end(), push_front before begin().
InsList == call.a
InsVal == IF call.op = "insert" THEN call.c ELSE call.b
InsPos ==
  IF call.op = "insert" THEN call.b
  ELSE IF call.op = "push_back" THEN end(before, call.a)
  ELSE begin(before, call.a)

\* C5: push_front, push_back and insert of a value whose node is already
\* Linked re-home it: afterwards the value stands at exactly one place,
\* immediately before pos (at the front, at the back for the pushes); the
\* other elements of every list are in unchanged order; insert returns an
\* iterator to the value.
C5_Rehome ==
  (/\ call.op \in {"push_back", "push_front", "insert"}
   /\ Linked(before, InsVal)
   /\ call.op = "insert" => InsPos # InsVal) =>
    LET W == Without(Order(before, InsList), InsVal)
        k == IF call.op = "insert" THEN IndexIn(W, sentinel(InsList), InsPos)
             ELSE IF call.op = "push_back" THEN Len(W) + 1
             ELSE 1
    IN  /\ status = "ok"
        /\ Order(Heap, InsList) = InsertAt(W, k, <<InsVal>>)
        /\ \A m \in Lists \ {InsList} :
              Order(Heap, m) = Without(Order(before, m), InsVal)
        /\ Places(Heap, InsVal) = 1
        /\ WellFormed(Heap)
        /\ call.op = "insert" => call.ret = InsVal

\* C5 witness: the middle element of a list of three has been inserted
\* before the only element of the other list.
C5_Witness ==
  /\ call.op = "insert"
  /\ \E m \in Lists \ {call.a} :
        /\ Len(Order(before, m)) = 3
        /\ Order(before, m)[2] = call.c
        /\ Len(Order(Heap, m)) = 2
  /\ Order(before, call.a) = <<call.b>>
  /\ Order(Heap, call.a) = <<call.c, call.b>>

\* C6: insert(iterator to V, V), insert(iterator to V's successor, V),
\* push_front(V) with V the front and push_back(V) with V the back leave
\* every prev and next of every node as it was.
C6_SelfInsert ==
  (\/ call.op = "insert" /\ Linked(before, InsVal)
        /\ (InsPos = InsVal \/ InsPos = before.next[InsVal])
   \/ call.op = "push_front" /\ InsVal = front(before, InsList)
   \/ call.op = "push_back" /\ InsVal = back(before, InsList)) =>
    (status = "ok" /\ prev = before.prev /\ next = before.next)

\* C6 witness: an element between two others has been inserted before its
\* successor.
C6_Witness ==
  /\ call.op = "insert"
  /\ Len(Order(before, call.a)) = 3
  /\ Order(before, call.a)[2] = call.c
  /\ Order(before, call.a)[3] = call.b

\* C7: destroying an object whose node is Linked removes exactly that node:
\* every list holds its other elements in unchanged order on a well-formed
\* chain and no surviving node references the destroyed one; destroying a
\* Detached node changes no other node.
C7_Destroy ==
  call.op = "destroy" =>
    /\ status = "ok"
    /\ call.a \notin alive
    /\ Linked(before, call.a) =>
         /\ \A m \in Lists : Order(Heap, m) = Without(Order(before, m), call.a)
         /\ \A x \in Nodes \ {call.a} : prev[x] # call.a /\ next[x] # call.a
         /\ \A x \in Sentinels \cup alive :
               Detached(Heap, x) \/ Consistent(Heap, x)
         /\ WellFormed(Heap)
    /\ Detached(before, call.a) =>
         \A x \in Nodes \ {call.a} : SameLinks(before, Heap, x)

\* C7 witness: the middle element of a list of three has been destroyed.
C7_Witness ==
  /\ call.op = "destroy"
  /\ \E l \in Lists :
        /\ Len(Order(before, l)) = 3
        /\ Order(before, l)[2] = call.a
        /\ Len(Order(Heap, l)) = 2

\* C8: move construction from a Detached node gives a Detached node and
\* changes nothing else; from a Linked node, the new node takes the place of
\* the source (its former neighbours reference the new node in both
\* directions, the order is the old one with the source replaced) and the
\* source is Detached.
C8_MoveConstruct ==
  call.op = "move_ctor" =>
    LET n == call.a
        o == call.b
        p == before.prev[o]
        q == before.next[o]
    IN  /\ status = "ok"
        /\ n \in alive
        /\ Detached(before, o) =>
             /\ Detached(Heap, n)
             /\ \A x \in Nodes \ {n} : SameLinks(before, Heap, x)
        /\ Linked(before, o) =>
             /\ \A m \in Lists : Order(Heap, m) = Replace(Order(before, m), o, n)
             /\ prev[n] = p /\ next[n] = q
             /\ next[p] = n /\ prev[q] = n
             /\ Detached(Heap, o)
             /\ \A x \in Nodes \ {n, o, p, q} : SameLinks(before, Heap, x)
             /\ WellFormed(Heap)

\* C8 witness: a node has been move-constructed from the middle element of a
\* list of three.
C8_Witness ==
  /\ call.op = "move_ctor"
  /\ \E l \in Lists :
        /\ Len(Order(before, l)) = 3
        /\ Order(before, l)[2] = call.b
        /\ Order(Heap, l)[2] = call.a

\* C9: move assignment from a different node: a Detached source gives a
\* Detached result; with a Linked source the assigned-to node takes the
\* place of the source (the source's former neighbours reference it in both
\* directions) and the source becomes Detached.  Move assignment from the
\* node itself changes nothing.
C9_MoveAssign ==
  call.op = "move_assign" =>
    LET n == call.a
        o == call.b
    IN  /\ status = "ok"
        /\ n = o => (prev = before.prev /\ next = before.next)
        /\ (n # o /\ Detached(before, o)) => Detached(Heap, n)
        /\ (n # o /\ Linked(before, o)) =>
             /\ prev[n] = before.prev[o] /\ next[n] = before.next[o]
             /\ next[before.prev[o]] = n /\ prev[before.next[o]] = n
             /\ Detached(Heap, o)

\* C10: copy construction from any source gives a Detached node and leaves
\* the links of the source and of every other node unchanged.
C10_CopyConstruct ==
  call.op = "copy_ctor" =>
    /\ status = "ok"
    /\ call.a \in alive
    /\ Detached(Heap, call.a)
    /\ \A x \in Nodes \ {call.a} : SameLinks(before, Heap, x)
    /\ \A m \in Lists : Order(Heap, m) = Order(before, m)

\* C10 witness: a node has been copy-constructed from the middle element of
\* a list of three.
C10_Witness ==
  /\ call.op = "copy_ctor"
  /\ \E l \in Lists :
        /\ Len(Order(Heap, l)) = 3
        /\ Order(Heap, l)[2] = call.b

\* C11 as stated: after the copy assignment a = b the assigned-to node a is
\* Detached, whatever the link states of a and b were, and the links of b are
\* those it had.  (Violated: a Linked node a stays Linked.)
C11_CopyAssignDetaches ==
  call.op = "copy_assign" =>
    /\ status = "ok"
    /\ Detached(Heap, call.a)
    /\ SameLinks(before, Heap, call.b)

\* C11 amended: the copy assignment a = b changes no link field of any node:
\* a Detached node a stays Detached, a Linked node a keeps its place, and the
\* link state of b is neither changed nor duplicated (every list has the
\* order it had).
C11_CopyAssign ==
  call.op = "copy_assign" =>
    /\ status = "ok" /\ alive = before.alive
    /\ \A n \in Nodes : SameLinks(before, Heap, n)
    /\ \A l \in Lists : Order(Heap, l) = Order(before, l)
    /\ Detached(before, call.a) => Detached(Heap, call.a)

\* A copy assignment between two distinct Linked nodes has returned.
C11_Witness ==
  /\ call.op = "copy_assign" /\ call.a # call.b
  /\ Linked(before, call.a) /\ Linked(before, call.b)
  /\ Linked(Heap, call.a)

\* C12: unlink() on a Linked node x makes the two former neighbours of x
\* reference each other, leaves x Detached and changes no other link;
\* unlink() on a Detached node changes nothing; a second unlink() leaves the
\* state that the first one left.
C12_Unlink ==
  call.op = "unlink" =>
    LET x == call.a
        p == before.prev[x]
        n == before.next[x]
    IN  /\ status = "ok" /\ alive = before.alive
        /\ Linked(before, x) =>
              /\ next[p] = n /\ prev[n] = p
              /\ Detached(Heap, x)
              /\ \A m \in Nodes \ {x} :
                    /\ m # p => next[m] = before.next[m]
                    /\ m # n => prev[m] = before.prev[m]
              /\ \A l \in Lists : Order(Heap, l) = Without(Order(before, l), x)
        /\ Detached(before, x) => \A m \in Nodes : SameLinks(before, Heap, m)
        /\ unlink(Heap, x) = Heap

\* unlink() has returned on a node that stood between two other elements.
C12_Witness ==
  /\ call.op = "unlink" /\ Linked(before, call.a)
  /\ before.prev[call.a] \in Payload /\ before.next[call.a] \in Payload
  /\ Detached(Heap, call.a)

\* C13: after the move construction of list l from a list other of N >= 0
\* elements, other is empty, l holds the elements of other in their former
\* order, and the only link fields of payload nodes that have changed are the
\* prev of the first element and the next of the last element.
C13_ListMoveConstruct ==
  call.op = "list_move_ctor" =>
    LET l == call.a
        o == call.b
        O == Order(before, o)
    IN  /\ status = "ok" /\ live = before.live \cup {l} /\ alive = before.alive
        /\ empty(Heap, o) /\ begin(Heap, o) = end(Heap, o)
        /\ Order(Heap, l) = O /\ ChainOk(Heap, l)
        /\ \A n \in Payload :
              /\ (O = <<>> \/ n # O[1]) => prev[n] = before.prev[n]
              /\ (O = <<>> \/ n # O[Len(O)]) => next[n] = before.next[n]

\* A list has been move-constructed from a list of three or more elements.
C13_Witness ==
  /\ call.op = "list_move_ctor"
  /\ Len(Order(before, call.b)) >= 3
  /\ Order(Heap, call.a) = Order(before, call.b)

\* C14: after the move assignment of list l from a different list other,
\* other is empty, l holds the former elements of other in their former order
\* and every former element of l is Detached; the move assignment of a list
\* from itself changes no link.
C14_ListMoveAssign ==
  call.op = "list_move_assign" =>
    LET l == call.a
        o == call.b
    IN  /\ status = "ok" /\ alive = before.alive /\ live = before.live
        /\ l # o =>
              /\ empty(Heap, o) /\ Order(Heap, o) = <<>>
              /\ Order(Heap, l) = Order(before, o)
              /\ ChainOk(Heap, l) /\ ChainOk(Heap, o)
              /\ \A x \in Range(Order(before, l)) : Detached(Heap, x)
        /\ l = o =>
              /\ \A n \in Nodes : SameLinks(before, Heap, n)
              /\ Order(Heap, l) = Order(before, l)

\* A list of two or more elements has been move-assigned from another list
\* of two or more elements.
C14_Witness ==
  /\ call.op = "list_move_assign" /\ call.a # call.b
  /\ Len(Order(before, call.a)) >= 2 /\ Len(Order(before, call.b)) >= 2
  /\ Order(Heap, call.a) = Order(before, call.b)

\* C15: the destruction of list l, and clear() on l, leave every former
\* element of l Detached, leave no node that references the sentinel of l,
\* and change no link of any node that was not on l; after clear() the list
\* is empty, after the destruction it is no longer a live list.
C15_ListDestroy ==
  call.op \in {"list_dtor", "clear"} =>
    LET l == call.a
        s == sentinel(l)
        M == Range(Order(before, l))
    IN  /\ status = "ok" /\ alive = before.alive
        /\ \A x \in M : Detached(Heap, x)
        /\ \A n \in Nodes \ {s} : prev[n] # s /\ next[n] # s
        /\ \A n \in Nodes \ (M \cup {s}) : SameLinks(before, Heap, n)
        /\ \A m \in live \ {l} : Order(Heap, m) = Order(before, m)
        /\ call.op = "clear" => (live = before.live /\ empty(Heap, l))
        /\ call.op = "list_dtor" => live = before.live \ {l}

\* A list of two or more elements has been destroyed while the other list
\* held an element.
C15_Witness ==
  /\ call.op = "list_dtor"
  /\ Len(Order(before, call.a)) >= 2
  /\ \E m \in live : Order(Heap, m) # <<>>
  /\ \A x \in Range(Order(before, call.a)) : Detached(Heap, x)

\* The node that the operation of the record removes or re-homes.
Moved(h, rec) ==
  CASE rec.op = "erase" -> rec.b
    [] rec.op = "pop_front" -> front(h, rec.a)
    [] rec.op = "pop_back" -> back(h, rec.a)
    [] rec.op = "insert" -> rec.c
    [] rec.op \in {"push_back", "push_front"} -> rec.b
    [] rec.op = "destroy" -> rec.a
    [] OTHER -> NULL

\* The positions before and after the i-th of the circular sequence P.
After(P, i) == P[(i % Len(P)) + 1]
Before(P, i) == P[((i + Len(P) - 2) % Len(P)) + 1]

\* C16: after erase, pop_front, pop_back, insert or push of a node X, and
\* after the destruction of X, every iterator positioned at another node Y
\* (an element or end() of any live list) still refers to a live node of
\* the same list, the elements other than X stand in their former order, and
\* ++ and -- take the iterator to the neighbours of Y in the resulting order
\* of the list (from end() to the first and to the last element).
C16_Iterators ==
  call.op \in {"erase", "pop_front", "pop_back", "insert", "push_back",
               "push_front", "destroy"} =>
    LET X == Moved(before, call)
    IN  /\ status = "ok"
        /\ \A l \in live :
              LET P == Positions(Heap, l)
              IN  /\ Without(Order(Heap, l), X) = Without(Order(before, l), X)
                  /\ \A Y \in Range(Positions(before, l)) \ {X} :
                        /\ Ok(Heap, Y)
                        /\ \E i \in DOMAIN P :
                              /\ P[i] = Y
                              /\ iter_inc(Heap, Y) = After(P, i)
                              /\ iter_dec(Heap, Y) = Before(P, i)

\* An element that stood between two others has been erased, and the
\* iterators at its two neighbours now step to each other.
C16_Witness ==
  /\ call.op = "erase"
  /\ before.prev[call.b] \in Payload /\ before.next[call.b] \in Payload
  /\ iter_inc(Heap, before.prev[call.b]) = before.next[call.b]
  /\ iter_dec(Heap, before.next[call.b]) = before.prev[call.b]

\* C17: in every state, for every live list: empty() is true iff both
\* neighbours of the sentinel are the sentinel, iff begin() == end(), iff the
\* iteration from begin() to end() yields no element; it is never the case
\* that exactly one neighbour of the sentinel is the sentinel; the iteration
\* never yields the sentinel.
C17_Empty ==
  \A l \in live :
    LET s == sentinel(l)
        O == Order(Heap, l)
    IN  /\ empty(Heap, l) <=> (prev[s] = s /\ next[s] = s)
        /\ empty(Heap, l) <=> (begin(Heap, l) = end(Heap, l))
        /\ empty(Heap, l) <=> (O = <<>>)
        /\ (prev[s] = s) <=> (next[s] = s)
        /\ s \notin Range(O)

\* A pop has taken the last element of a list while the other list holds
\* elements: one list is empty and one is not.
C17_Witness ==
  /\ call.op \in {"pop_back", "pop_front"}
  /\ empty(Heap, call.a) /\ ~empty(before, call.a)
  /\ \E m \in live : ~empty(Heap, m) /\ begin(Heap, m) # end(Heap, m)

\* The nodes of tag t.
Tagged(t) == {element(o, t) : o \in Objs}

Changed(g, h) ==
  {<<"prev", n>> : n \in {m \in Nodes : g.prev[m] # h.prev[m]}} \cup
  {<<"next", n>> : n \in {m \in Nodes : g.next[m] # h.next[m]}}

\* C19: splice(pos, other, first, last) with first # last changes at most
\* six link fields, whatever the length of the range: the prev of first, the
\* next of the former predecessor of first, the next of the last moved
\* element, the prev of last, the prev of pos and the next of the former
\* predecessor of pos.  Every other link, each link between two moved
\* elements included, is unchanged.
C19_SpliceFrame ==
  (call.op = "splice" /\ call.c # call.d) =>
    LET pos == call.b
        first == call.c
        last == call.d
    IN  /\ status = "ok"
        /\ Changed(before, Heap) \subseteq
              {<<"prev", first>>, <<"next", before.prev[first]>>,
               <<"next", before.prev[last]>>, <<"prev", last>>,
               <<"prev", pos>>, <<"next", before.prev[pos]>>}
        /\ Cardinality(Changed(before, Heap)) <= 6

\* A range of three or more elements has been spliced into the other list
\* and exactly six link fields have changed.
C19_Witness ==
  /\ call.op = "splice" /\ call.a # call.ret
  /\ Len(Order(Heap, call.a)) >= Len(Order(before, call.a)) + 3
  /\ Cardinality(Changed(before, Heap)) = 6

\* C20: splice(pos, other, first, last) with first == last, the cases
\* first == last == other.end() and an empty list other included, changes
\* no link field of any node.
C20_SpliceEmptyRange ==
  (call.op = "splice" /\ call.c = call.d) =>
    /\ status = "ok"
    /\ Changed(before, Heap) = {}
    /\ \A l \in Lists : Order(Heap, l) = Order(before, l)

\* A splice of the empty range at an element of a non-empty list other, to a
\* position of a different list that holds elements, has returned.
C20_Witness ==
  /\ call.op = "splice" /\ call.c = call.d /\ call.a # call.ret
  /\ call.c \in Payload /\ call.b \in Payload
  /\ Changed(before, Heap) = {}

\* The assertions of pop_back, pop_front, back and front of
\* intrusive_list.h:481-509 stop a call on an empty list before it writes.
AssertsStopEmpty ==
  (call.op \in {"front", "back", "pop_front", "pop_back"} /\ call.d = 0
     /\ empty(before, call.a)) =>
    /\ status = "assert" /\ call.ret = NULL
    /\ \A n \in Nodes : SameLinks(before, Heap, n)

\* C21: front(), back(), pop_front() and pop_back() on an empty list end in
\* the failure of an assertion before any link is written, and do not return
\* a reference to the sentinel nor unlink it.  (Violated: front() and back()
\* of intrusive_list.h:720-734 have no assertion.)
C21_EmptyAsserts ==
  (call.op \in {"front", "back", "pop_front", "pop_back"}
     /\ empty(before, call.a)) =>
    /\ status = "assert"
    /\ call.ret # sentinel(call.a)
    /\ \A n \in Nodes : SameLinks(before, Heap, n)

\* C22: erase(end()), on an empty or a non-empty list, ends in the failure
\* of an assertion and neither unlinks the sentinel nor changes any link.
\* (Violated: erase has no assertion and unlinks the sentinel.)
C22_EraseEnd ==
  (call.op = "erase" /\ call.b = sentinel(call.a)) =>
    /\ status = "assert"
    /\ \A n \in Nodes : SameLinks(before, Heap, n)

\* clear() ends with the list empty and its former elements Detached when
\* the chains are intact at its entry.
ClearEndsOnIntactChains ==
  (call.op = "clear" /\ WellFormed(before)) =>
    /\ status = "ok" /\ empty(Heap, call.a)
    /\ \A x \in Range(Order(before, call.a)) : Detached(Heap, x)

\* C23: from every state reached by the public operations, the moves,
\* copies and destructions of payload nodes included, clear() ends, and it
\* ends with the list empty.  (Violated: see C9; after the move assignment
\* from an element, pop_back() unlinks a node that is already unconnected and
\* the loop never ends, or it dereferences nullptr.)
C23_ClearTerminates ==
  call.op = "clear" => (status = "ok" /\ empty(Heap, call.a))

\* C24: splice(pos, other, first, last) with other the list of pos and pos
\* outside [first, last): the list keeps the same set of elements, the
\* elements of [first, last) stand in their former order immediately before
\* pos, the other elements keep their order, the chain is one well-formed
\* cycle, and the other list is unchanged; with pos == last the order of the
\* list is unchanged.
C24_SpliceSameList ==
  (call.op = "splice" /\ call.a = call.ret) =>
    LET l == call.a
        s == sentinel(l)
        P == Order(before, l)
        i == IndexOf(before, l, call.c)
        j == IndexOf(before, l, call.d)
        M == SubSeq(P, i, j - 1)
        R == RemoveRange(P, i, j)
    IN  /\ status = "ok"
        /\ Order(Heap, l) = InsertAt(R, IndexIn(R, s, call.b), M)
        /\ Range(Order(Heap, l)) = Range(P) /\ Len(Order(Heap, l)) = Len(P)
        /\ ChainOk(Heap, l)
        /\ call.b = call.d => Order(Heap, l) = P
        /\ \A m \in Lists \ {l} : Order(Heap, m) = Order(before, m)

\* Within one list of four elements the second and the third have been
\* moved before the first.
C24_Witness ==
  /\ call.op = "splice" /\ call.a = call.ret
  /\ Len(Order(before, call.a)) = 4
  /\ call.b = Order(before, call.a)[1]
  /\ call.c = Order(before, call.a)[2]
  /\ call.d = Order(before, call.a)[4]
  /\ Order(Heap, call.a) =
       <<Order(before, call.a)[2], Order(before, call.a)[3],
         Order(before, call.a)[1], Order(before, call.a)[4]>>

\* The nodes that the operation of the record has constructed, moved from or
\* removed from a list; h is the state at its entry.
Unconnected(h, rec) ==
  CASE rec.op \in {"construct", "copy_ctor", "unlink"} -> {rec.a}
    [] rec.op = "move_ctor" -> {rec.a, rec.b} \ {n \in {rec.a} : Linked(h, rec.b)}
    [] rec.op = "move_assign" -> {rec.b} \ {rec.a}
    [] rec.op = "erase" -> {rec.b}
    [] rec.op = "pop_front" -> {front(h, rec.a)}
    [] rec.op = "pop_back" -> {back(h, rec.a)}
    [] rec.op = "clear" -> Range(Order(h, rec.a))
    [] OTHER -> {}

====
